---- MODULE Spec2Model ----
(***************************************************************************)
(* Credential and registration subsystem of the Global Medical Portal      *)
(* (src/app.py): validators, password hashing, the per-session user store, *)
(* the signup and login form handlers and logout.                          *)
(*                                                                         *)
(* Text is a sequence of one-character strings, so that the validators     *)
(* work on characters as the Python code does.  The token "sup2" stands    *)
(* for the single character U+00B2 (SUPERSCRIPT TWO).                      *)
(***************************************************************************)
EXTENDS Integers, Sequences, FiniteSets, TLC

VARIABLES users_db, logged_in, user_data, clock, last,
          stores, sessions, mutex

vars == <<users_db, logged_in, user_data, clock, last, stores, sessions, mutex>>

\* the state of several sessions side by side: the store objects on the
\* heap, the session_state and the script position of each session, and the
\* lock around check-then-insert
concurrent_vars == <<stores, sessions, mutex>>

\* no lock
NoMutex == [enabled |-> FALSE, holder |-> 0]

(***************************************************************************)
(* Bounds of the model.                                                    *)
(***************************************************************************)
\* most accounts the store of one session is let grow to, the two sample
\* accounts included
MaxUsers == 4

(***************************************************************************)
(* Characters and Python string primitives.                                *)
(***************************************************************************)
LowerLetters ==
    {"a", "b", "c", "d", "e", "f", "g", "h", "i", "j", "k", "l", "m",
     "n", "o", "p", "q", "r", "s", "t", "u", "v", "w", "x", "y", "z"}

UpperLetters ==
    {"A", "B", "C", "D", "E", "F", "G", "H", "I", "J", "K", "L", "M",
     "N", "O", "P", "Q", "R", "S", "T", "U", "V", "W", "X", "Y", "Z"}

\* the regex class [A-Za-z]
Letters == LowerLetters \cup UpperLetters

\* the regex class [0-9]
AsciiDigits == {"0", "1", "2", "3", "4", "5", "6", "7", "8", "9"}

\* characters c with c.isdigit(): the Unicode property Numeric_Type=Digit or
\* Decimal, which holds of 0-9 and also of e.g. U+00B2
IsDigitChars == AsciiDigits \cup {"sup2"}

\* characters removed by str.strip()
Whitespace == {" ", "\t", "\n"}

\* Python's None
None == [none |-> TRUE]

\* truthiness of a str: the empty string is falsy
Truthy(text) == text # <<>>

RECURSIVE lstrip(_)
lstrip(text) ==
    IF text # <<>> /\ Head(text) \in Whitespace THEN lstrip(Tail(text)) ELSE text

RECURSIVE rstrip(_)
rstrip(text) ==
    IF text # <<>> /\ text[Len(text)] \in Whitespace
    THEN rstrip(SubSeq(text, 1, Len(text) - 1))
    ELSE text

\* str.strip()
strip(text) == rstrip(lstrip(text))

\* str.isdigit(): at least one character and every character a digit
isdigit(text) == text # <<>> /\ \A k \in 1..Len(text) : text[k] \in IsDigitChars

(***************************************************************************)
(* Utility functions of app.py.                                            *)
(***************************************************************************)
\* SHA-256 hex digest, taken as collision free: an injective map whose
\* value is never a text a user can type
hash_password(password) == <<"sha256:">> \o password

\* [a-zA-Z0-9._%+-]
EmailLocalChars == Letters \cup AsciiDigits \cup {".", "_", "%", "+", "-"}

\* [a-zA-Z0-9.-]
EmailDomainChars == Letters \cup AsciiDigits \cup {".", "-"}

\* re.match(r'^[a-zA-Z0-9._%+-]+@[a-zA-Z0-9.-]+\.[a-zA-Z]{2,}$', text)
EmailPatternMatches(text) ==
    \E i \in 1..Len(text) : \E j \in 1..Len(text) :
        /\ i > 1
        /\ text[i] = "@"
        /\ \A k \in 1..(i - 1) : text[k] \in EmailLocalChars
        /\ j > i + 1
        /\ text[j] = "."
        /\ \A k \in (i + 1)..(j - 1) : text[k] \in EmailDomainChars
        /\ Len(text) - j >= 2
        /\ \A k \in (j + 1)..Len(text) : text[k] \in Letters

validate_email(email) ==
    IF ~Truthy(email) THEN FALSE ELSE EmailPatternMatches(strip(email))

\* the (bool, reason) pair of validate_password
validate_password(password) ==
    IF ~Truthy(password) THEN <<FALSE, "Password is required">>
    ELSE IF Len(password) < 6
    THEN <<FALSE, "Password must be at least 6 characters long">>
    ELSE IF ~(\E k \in 1..Len(password) : password[k] \in Letters)
    THEN <<FALSE, "Password must contain at least one letter">>
    ELSE IF ~(\E k \in 1..Len(password) : password[k] \in AsciiDigits)
    THEN <<FALSE, "Password must contain at least one number">>
    ELSE <<TRUE, "Password is valid">>

validate_pincode(pincode) == isdigit(pincode) /\ Len(pincode) \in {5, 6}

\* every role filed under "patients"
PartitionKey_always_patients(user_type) == "patients"

\* f"{user_type}s"
PartitionKey(user_type) == IF user_type = "patient" THEN "patients" ELSE "doctors"

\* users_db.get(f"{user_type}s", [])
Partition(db, user_type) ==
    IF PartitionKey(user_type) \in DOMAIN db THEN db[PartitionKey(user_type)] ELSE <<>>

\* the loop with the email comparison left out
RECURSIVE FirstMatch_password_only(_, _, _, _)
FirstMatch_password_only(users, email, hashed_password, k) ==
    IF k > Len(users) THEN 0
    ELSE IF users[k].password = hashed_password THEN k
    ELSE FirstMatch_password_only(users, email, hashed_password, k + 1)

\* index of the first user the loop of authenticate_user returns, 0 if none
RECURSIVE FirstMatch(_, _, _, _)
FirstMatch(users, email, hashed_password, k) ==
    IF k > Len(users) THEN 0
    ELSE IF users[k].email = email /\ users[k].password = hashed_password THEN k
    ELSE FirstMatch(users, email, hashed_password, k + 1)

\* the lookup made over both partitions instead of the one of user_type
authenticate_user_any_role(db, email, password, user_type) ==
    LET hashed_password == hash_password(password)
        users == db.patients \o db.doctors
        k == FirstMatch(users, email, hashed_password, 1)
    IN  IF k = 0 THEN None ELSE users[k]

authenticate_user(db, email, password, user_type) ==
    LET hashed_password == hash_password(password)
        users == Partition(db, user_type)
        k == FirstMatch(users, email, hashed_password, 1)
    IN  IF k = 0 THEN None ELSE users[k]

\* the new record put in front of the partition instead of appended
save_user_to_db_prepend(db, new_user, user_type, now) ==
    LET key == PartitionKey(user_type)
        stored == new_user @@ [created_at |-> now, user_id |-> Len(db[key]) + 1]
    IN  [db EXCEPT ![key] = <<stored>> \o @]

\* user_id taken as the length before the append, without the + 1
save_user_to_db_zero_based(db, new_user, user_type, now) ==
    LET key == PartitionKey(user_type)
        stored == new_user @@ [created_at |-> now, user_id |-> Len(db[key])]
    IN  [db EXCEPT ![key] = Append(@, stored)]

\* the store after save_user_to_db, its datetime.now() read as now
save_user_to_db(db, new_user, user_type, now) ==
    LET key == PartitionKey(user_type)
        stored == new_user @@ [created_at |-> now, user_id |-> Len(db[key]) + 1]
    IN  [db EXCEPT ![key] = Append(@, stored)]

\* the email looked for in the partition of the other role
check_user_exists_other_role(db, email, user_type) ==
    LET other == IF user_type = "patient" THEN "doctor" ELSE "patient"
    IN  \E k \in 1..Len(Partition(db, other)) : Partition(db, other)[k].email = email

\* the email looked for in both partitions
check_user_exists_any_role(db, email, user_type) ==
    \E k \in 1..Len(db.patients \o db.doctors) : (db.patients \o db.doctors)[k].email = email

check_user_exists(db, email, user_type) ==
    \E k \in 1..Len(Partition(db, user_type)) : Partition(db, user_type)[k].email = email

\* a store without sample accounts
load_sample_data_empty(t1, t2) == [patients |-> <<>>, doctors |-> <<>>]

\* the sample store, its two datetime.now() calls read as t1 and t2
load_sample_data(t1, t2) ==
    [patients |-> <<
        [user_type |-> "patient",
         first_name |-> <<"J", "o", "h", "n">>,
         last_name |-> <<"D", "o", "e">>,
         username |-> <<"j", "o", "h", "n", "d", "o", "e">>,
         email |-> <<"j", "o", "h", "n", ".", "d", "o", "e", "@",
                     "e", "x", "a", "m", "p", "l", "e", ".", "c", "o", "m">>,
         password |-> hash_password(<<"p", "a", "s", "s", "w", "o", "r", "d", "1", "2", "3">>),
         address |-> [line1 |-> <<"1", "2", "3", " ", "M", "a", "i", "n", " ",
                                  "S", "t", "r", "e", "e", "t">>,
                      city |-> <<"N", "e", "w", " ", "Y", "o", "r", "k">>,
                      state |-> <<"N", "Y">>,
                      pincode |-> <<"1", "0", "0", "0", "1">>],
         user_id |-> 1,
         created_at |-> t1] >>,
     doctors |-> <<
        [user_type |-> "doctor",
         first_name |-> <<"D", "r", ".", " ", "J", "a", "n", "e">>,
         last_name |-> <<"S", "m", "i", "t", "h">>,
         username |-> <<"d", "r", "j", "a", "n", "e", "s", "m", "i", "t", "h">>,
         email |-> <<"j", "a", "n", "e", ".", "s", "m", "i", "t", "h", "@",
                     "h", "o", "s", "p", "i", "t", "a", "l", ".", "c", "o", "m">>,
         password |-> hash_password(<<"d", "o", "c", "t", "o", "r", "1", "2", "3">>),
         address |-> [line1 |-> <<"4", "5", "6", " ", "M", "e", "d", "i", "c", "a", "l", " ",
                                  "C", "e", "n", "t", "e", "r">>,
                      city |-> <<"L", "o", "s", " ", "A", "n", "g", "e", "l", "e", "s">>,
                      state |-> <<"C", "A">>,
                      pincode |-> <<"9", "0", "2", "1", "0">>],
         user_id |-> 1,
         created_at |-> t2] >>]

\* image_to_base64(image): the PNG bytes of the upload, base64 encoded
image_to_base64(image) == <<"base64:">> \o image

(***************************************************************************)
(* Inputs of the handlers: what the user types into the forms.             *)
(***************************************************************************)
Roles == {"patient", "doctor"}

\* "a@b.co", " a@b.co" (leading blank) and "a@b" (no top-level segment)
SignupEmails ==
    {<<"a", "@", "b", ".", "c", "o">>,
     <<" ", "a", "@", "b", ".", "c", "o">>,
     <<"a", "@", "b">>}

\* "abc123" (strong) and "abcdef" (no digit)
SignupPasswords ==
    {<<"a", "b", "c", "1", "2", "3">>, <<"a", "b", "c", "d", "e", "f">>}

\* "12345", "1234" and "1234" followed by U+00B2
Pincodes ==
    {<<"1", "2", "3", "4", "5">>, <<"1", "2", "3", "4">>, <<"1", "2", "3", "4", "sup2">>}

FirstNames == {<<"A", "n", "n">>, <<>>}
LastNames == {<<"L", "e", "e">>}
Usernames == {<<"a", "n", "n", "l", "e", "e">>}
AddressLines == {<<"1", " ", "E", "l", "m", " ", "S", "t">>}
Cities == {<<"P", "u", "n", "e">>}
States == {<<"M", "H">>}

\* st.checkbox: the terms are accepted in every submission of the session
TermsAccepted == {TRUE}

\* st.file_uploader: None, or the uploaded image; no picture is uploaded in
\* the session
ProfilePictures == {None}

SignupForms ==
    [user_type : Roles,
     first_name : FirstNames,
     last_name : LastNames,
     username : Usernames,
     email : SignupEmails,
     password : SignupPasswords,
     confirm_password : SignupPasswords,
     address_line1 : AddressLines,
     city : Cities,
     state : States,
     pincode : Pincodes,
     terms_accepted : TermsAccepted,
     profile_picture : ProfilePictures]

\* the login form is tried with an empty field, with "a@b.co" and with the
\* addresses and passwords of the two sample accounts
LoginEmails ==
    {<<>>,
     <<"a", "@", "b", ".", "c", "o">>,
     <<"j", "o", "h", "n", ".", "d", "o", "e", "@",
       "e", "x", "a", "m", "p", "l", "e", ".", "c", "o", "m">>,
     <<"j", "a", "n", "e", ".", "s", "m", "i", "t", "h", "@",
       "h", "o", "s", "p", "i", "t", "a", "l", ".", "c", "o", "m">>}

LoginPasswords ==
    {<<>>,
     <<"a", "b", "c", "1", "2", "3">>,
     <<"p", "a", "s", "s", "w", "o", "r", "d", "1", "2", "3">>,
     <<"d", "o", "c", "t", "o", "r", "1", "2", "3">>}

LoginForms == [user_type : Roles, email : LoginEmails, password : LoginPasswords]

(***************************************************************************)
(* The signup form handler (signup_form, the branch taken on submission).  *)
(***************************************************************************)
ErrRequired == "All required fields must be filled"
ErrTerms == "You must accept the Terms of Service"
ErrEmail == "Please enter a valid email address"
ErrMismatch == "Passwords do not match"
ErrPincode == "Postal code must be 5-6 digits"
ErrExists == "An account with this email already exists"

\* all([first_name, ..., pincode])
AllRequiredFilled(form) ==
    /\ Truthy(form.first_name)
    /\ Truthy(form.last_name)
    /\ Truthy(form.username)
    /\ Truthy(form.email)
    /\ Truthy(form.password)
    /\ Truthy(form.confirm_password)
    /\ Truthy(form.address_line1)
    /\ Truthy(form.city)
    /\ Truthy(form.state)
    /\ Truthy(form.pincode)

\* the checks stopping at the first that fails
SignupErrors_short_circuit(db, form) ==
    IF ~AllRequiredFilled(form) THEN <<ErrRequired>>
    ELSE IF ~form.terms_accepted THEN <<ErrTerms>>
    ELSE IF ~validate_email(form.email) THEN <<ErrEmail>>
    ELSE IF form.password # form.confirm_password THEN <<ErrMismatch>>
    ELSE IF ~validate_password(form.password)[1]
    THEN <<validate_password(form.password)[2]>>
    ELSE IF Truthy(form.pincode) /\ ~validate_pincode(form.pincode)
    THEN <<ErrPincode>>
    ELSE IF check_user_exists(db, form.email, form.user_type) THEN <<ErrExists>>
    ELSE <<>>

\* the list errors of signup_form, in the order the checks append to it
SignupErrors(db, form) ==
    (IF ~AllRequiredFilled(form) THEN <<ErrRequired>> ELSE <<>>)
    \o (IF ~form.terms_accepted THEN <<ErrTerms>> ELSE <<>>)
    \o (IF ~validate_email(form.email) THEN <<ErrEmail>> ELSE <<>>)
    \o (IF form.password # form.confirm_password THEN <<ErrMismatch>> ELSE <<>>)
    \o (IF ~validate_password(form.password)[1]
        THEN <<validate_password(form.password)[2]>> ELSE <<>>)
    \o (IF Truthy(form.pincode) /\ ~validate_pincode(form.pincode)
        THEN <<ErrPincode>> ELSE <<>>)
    \o (IF check_user_exists(db, form.email, form.user_type) THEN <<ErrExists>> ELSE <<>>)

\* the password stored as typed, without hash_password
NewUserData_keeps_plaintext(form) ==
    [user_type |-> form.user_type,
     first_name |-> form.first_name,
     last_name |-> form.last_name,
     username |-> form.username,
     email |-> form.email,
     password |-> form.password,
     address |-> [line1 |-> form.address_line1,
                  city |-> form.city,
                  state |-> form.state,
                  pincode |-> form.pincode]]

\* the dict user_data that signup_form assembles
NewUserData(form) ==
    LET base == [user_type |-> form.user_type,
                 first_name |-> form.first_name,
                 last_name |-> form.last_name,
                 username |-> form.username,
                 email |-> form.email,
                 password |-> hash_password(form.password),
                 address |-> [line1 |-> form.address_line1,
                              city |-> form.city,
                              state |-> form.state,
                              pincode |-> form.pincode]]
    IN  IF form.profile_picture # None
        THEN base @@ [profile_picture |-> image_to_base64(form.profile_picture)]
        ELSE base

MsgCreated == "Account created successfully! You can now login with your credentials."

\* the account saved as soon as the form checks pass, the duplicate check
\* only adding its error afterwards
SignupStore_save_before_duplicate_check(db, form, errors, now) ==
    IF errors \in {<<>>, <<ErrExists>>}
    THEN save_user_to_db(db, NewUserData(form), form.user_type, now)
    ELSE db

\* the store a submission with the list errors leaves: the errors are shown
\* and nothing is saved, or there is none and the new account is saved
SignupStore(db, form, errors, now) ==
    IF errors # <<>>
    THEN db
    ELSE save_user_to_db(db, NewUserData(form), form.user_type, now)

signup_form(form) ==
    /\ ~logged_in
    /\ Len(users_db.patients) + Len(users_db.doctors) < MaxUsers
    /\ LET errors == SignupErrors(users_db, form)
       IN  /\ users_db' = SignupStore(users_db, form, errors, clock)
           /\ last' = [op |-> "signup", form |-> form, errors |-> errors,
                       message |-> IF errors # <<>> THEN "" ELSE MsgCreated,
                       user |-> None]
    /\ clock' = IF users_db' # users_db THEN clock + 1 ELSE clock
    /\ UNCHANGED <<logged_in, user_data, concurrent_vars>>

(***************************************************************************)
(* The login form handler (login_form) and logout (main).                  *)
(***************************************************************************)
MsgWelcome == "Welcome back"
MsgInvalid == "Invalid email or password. Please try again."
MsgEnterBoth == "Please enter both email and password."

\* a login form that tells an unknown email from a wrong password
LoginOutcome_names_unknown_email(db, form) ==
    IF Truthy(form.email) /\ Truthy(form.password)
    THEN LET user == authenticate_user(db, form.email, form.password, form.user_type)
         IN  IF user # None
             THEN [message |-> MsgWelcome, user |-> user,
                   logged_in |-> TRUE, user_data |-> user]
             ELSE IF check_user_exists(db, form.email, form.user_type)
             THEN [message |-> "Wrong password.", user |-> user,
                   logged_in |-> logged_in, user_data |-> user_data]
             ELSE [message |-> "No account with this email.", user |-> user,
                   logged_in |-> logged_in, user_data |-> user_data]
    ELSE [message |-> MsgEnterBoth, user |-> None,
          logged_in |-> logged_in, user_data |-> user_data]

\* a refused login that sets logged_in all the same
LoginOutcome_refused_sets_logged_in(db, form) ==
    IF Truthy(form.email) /\ Truthy(form.password)
    THEN LET user == authenticate_user(db, form.email, form.password, form.user_type)
         IN  IF user # None
             THEN [message |-> MsgWelcome, user |-> user,
                   logged_in |-> TRUE, user_data |-> user]
             ELSE [message |-> MsgInvalid, user |-> user,
                   logged_in |-> TRUE, user_data |-> user_data]
    ELSE [message |-> MsgEnterBoth, user |-> None,
          logged_in |-> logged_in, user_data |-> user_data]

\* what a login submission shows and leaves in the session state
LoginOutcome(db, form) ==
    IF Truthy(form.email) /\ Truthy(form.password)
    THEN LET user == authenticate_user(db, form.email, form.password, form.user_type)
         IN  IF user # None
             THEN [message |-> MsgWelcome, user |-> user,
                   logged_in |-> TRUE, user_data |-> user]
             ELSE [message |-> MsgInvalid, user |-> user,
                   logged_in |-> logged_in, user_data |-> user_data]
    ELSE [message |-> MsgEnterBoth, user |-> None,
          logged_in |-> logged_in, user_data |-> user_data]

login_form(form) ==
    /\ ~logged_in
    /\ LET outcome == LoginOutcome(users_db, form)
       IN  /\ logged_in' = outcome.logged_in
           /\ user_data' = outcome.user_data
           /\ last' = [op |-> "login", form |-> form, errors |-> <<>>,
                       message |-> outcome.message, user |-> outcome.user]
    /\ UNCHANGED <<users_db, clock, concurrent_vars>>

\* logout that clears logged_in and keeps user_data
logout_keeps_user_data ==
    /\ logged_in
    /\ logged_in' = FALSE
    /\ user_data' = user_data
    /\ last' = [op |-> "logout", form |-> None, errors |-> <<>>,
                message |-> "", user |-> None]
    /\ UNCHANGED <<users_db, clock, concurrent_vars>>

logout ==
    /\ logged_in
    /\ logged_in' = FALSE
    /\ user_data' = None
    /\ last' = [op |-> "logout", form |-> None, errors |-> <<>>,
                message |-> "", user |-> None]
    /\ UNCHANGED <<users_db, clock, concurrent_vars>>

(***************************************************************************)
(* One session.                                                            *)
(***************************************************************************)
\* initialize_session_state on the first run of the script
Init ==
    /\ logged_in = FALSE
    /\ user_data = None
    /\ users_db = load_sample_data(0, 1)
    /\ clock = 2
    /\ stores = <<>>
    /\ sessions = <<>>
    /\ mutex = NoMutex
    /\ last = [op |-> "init", form |-> None, errors |-> <<>>,
               message |-> "", user |-> None]

SignupSubmitted == \E form \in SignupForms : signup_form(form)

LoginSubmitted == \E form \in LoginForms : login_form(form)

Next == SignupSubmitted \/ LoginSubmitted \/ logout

Spec == Init /\ [][Next]_vars

(***************************************************************************)
(* The validators of utils/auth.py and utils/val.py (whose header names it *)
(* utils/validators.py), and the outcome of a call as a value: what the    *)
(* call returns, or the error it raises.                                   *)
(***************************************************************************)
Returns(value) == [returns |-> value]
Raises(error) == [raises |-> error]

\* re.match(pattern, text) with the '$' of the pattern: the end of the text,
\* or the place before a newline that ends the text
EmailPatternMatchesDollar(text) ==
    \/ EmailPatternMatches(text)
    \/ /\ text # <<>>
       /\ text[Len(text)] = "\n"
       /\ EmailPatternMatches(SubSeq(text, 1, Len(text) - 1))

\* utils/auth.py: no test for an empty email and no strip
auth_validate_email(email) == EmailPatternMatchesDollar(email)

\* utils/auth.py: no "Password is required" branch
auth_validate_password(password) ==
    IF Len(password) < 6
    THEN <<FALSE, "Password must be at least 6 characters long">>
    ELSE IF ~(\E k \in 1..Len(password) : password[k] \in Letters)
    THEN <<FALSE, "Password must contain at least one letter">>
    ELSE IF ~(\E k \in 1..Len(password) : password[k] \in AsciiDigits)
    THEN <<FALSE, "Password must contain at least one number">>
    ELSE <<TRUE, "Password is valid">>

val_validate_email(email) ==
    IF ~Truthy(email) THEN FALSE ELSE EmailPatternMatchesDollar(strip(email))

\* the longest password utils/val.py accepts
MaxPasswordChars == 128

\* [!@#$%^&*()_+\-=\[\]{};':"\\|,.<>/?]
SpecialChars ==
    {"!", "@", "#", "$", "%", "^", "&", "*", "(", ")", "_", "+", "-", "=",
     "[", "]", "{", "}", ";", "'", ":", "\"", "\\", "|", ",", ".", "<", ">",
     "/", "?"}

val_validate_password(password) ==
    IF ~Truthy(password) THEN <<FALSE, "Password is required">>
    ELSE IF Len(password) < 6
    THEN <<FALSE, "Password must be at least 6 characters long">>
    ELSE IF Len(password) > MaxPasswordChars
    THEN <<FALSE, "Password must be no more than 128 characters long">>
    ELSE IF ~(\E k \in 1..Len(password) : password[k] \in UpperLetters)
    THEN <<FALSE, "Password must contain at least one uppercase letter">>
    ELSE IF ~(\E k \in 1..Len(password) : password[k] \in LowerLetters)
    THEN <<FALSE, "Password must contain at least one lowercase letter">>
    ELSE IF ~(\E k \in 1..Len(password) : password[k] \in AsciiDigits)
    THEN <<FALSE, "Password must contain at least one digit">>
    ELSE IF ~(\E k \in 1..Len(password) : password[k] \in SpecialChars)
    THEN <<FALSE, "Password must contain at least one special character">>
    ELSE <<TRUE, "Password is valid">>

\* the names a field must not be blank under, in the order asked for
RECURSIVE MissingFields(_, _)
MissingFields(data, required_fields) ==
    IF required_fields = <<>> THEN <<>>
    ELSE LET field == Head(required_fields)
             missing == \/ field \notin DOMAIN data
                        \/ ~Truthy(data[field])
                        \/ ~Truthy(strip(data[field]))
         IN  (IF missing THEN <<field>> ELSE <<>>)
             \o MissingFields(data, Tail(required_fields))

\* the pair (all_valid, missing_fields)
validate_required_fields(data, required_fields) ==
    LET missing_fields == MissingFields(data, required_fields)
    IN  <<Len(missing_fields) = 0, missing_fields>>

\* a call of each validator with an argument that is a text, [text |-> t],
\* or None
Call_validate_email(arg) ==
    IF arg = None THEN Returns(FALSE) ELSE Returns(validate_email(arg.text))

Call_validate_password(arg) ==
    IF arg = None THEN Returns(<<FALSE, "Password is required">>)
    ELSE Returns(validate_password(arg.text))

\* None has no isdigit
Call_validate_pincode(arg) ==
    IF arg = None THEN Raises("AttributeError")
    ELSE Returns(validate_pincode(arg.text))

\* re.match(pattern, None)
Call_auth_validate_email(arg) ==
    IF arg = None THEN Raises("TypeError")
    ELSE Returns(auth_validate_email(arg.text))

\* len(None)
Call_auth_validate_password(arg) ==
    IF arg = None THEN Raises("TypeError")
    ELSE Returns(auth_validate_password(arg.text))

Call_val_validate_email(arg) ==
    IF arg = None THEN Returns(FALSE) ELSE Returns(val_validate_email(arg.text))

Call_val_validate_password(arg) ==
    IF arg = None THEN Returns(<<FALSE, "Password is required">>)
    ELSE Returns(val_validate_password(arg.text))

(***************************************************************************)
(* validate_signup_form of components/froms.py.                            *)
(***************************************************************************)
required_fields ==
    <<"first_name", "last_name", "username", "email", "password",
      "confirm_password", "address_line1", "city", "state", "pincode">>

\* f"{field.replace('_', ' ').title()} is required"
RequiredMessage(field) ==
    CASE field = "first_name" -> "First Name is required"
      [] field = "last_name" -> "Last Name is required"
      [] field = "username" -> "Username is required"
      [] field = "email" -> "Email is required"
      [] field = "password" -> "Password is required"
      [] field = "confirm_password" -> "Confirm Password is required"
      [] field = "address_line1" -> "Address Line1 is required"
      [] field = "city" -> "City is required"
      [] field = "state" -> "State is required"
      [] field = "pincode" -> "Pincode is required"

FormErrTerms == "You must accept the Terms and Conditions"
FormErrEmail == "Invalid email format"
FormErrMismatch == "Password and Confirm Password do not match"
FormErrPincode == "Pincode must be 5-6 digits"

\* the errors of the loop over required_fields
RECURSIVE RequiredErrors(_, _)
RequiredErrors(form_data, fields) ==
    IF fields = <<>> THEN <<>>
    ELSE (IF ~Truthy(form_data[Head(fields)])
          THEN <<RequiredMessage(Head(fields))>> ELSE <<>>)
         \o RequiredErrors(form_data, Tail(fields))

\* validate_pincode as froms.py imports it from utils.validators, where no
\* such function is defined: 5 or 6 decimal digits
validators_validate_pincode(pincode) ==
    /\ Len(pincode) \in {5, 6}
    /\ \A k \in 1..Len(pincode) : pincode[k] \in AsciiDigits

validate_signup_form(form_data) ==
    RequiredErrors(form_data, required_fields)
    \o (IF ~form_data.terms_accepted THEN <<FormErrTerms>> ELSE <<>>)
    \o (IF Truthy(form_data.email) /\ ~val_validate_email(form_data.email)
        THEN <<FormErrEmail>> ELSE <<>>)
    \o (IF Truthy(form_data.password)
           /\ ~val_validate_password(form_data.password)[1]
        THEN <<val_validate_password(form_data.password)[2]>> ELSE <<>>)
    \o (IF form_data.password # form_data.confirm_password
        THEN <<FormErrMismatch>> ELSE <<>>)
    \o (IF Truthy(form_data.pincode)
           /\ ~validators_validate_pincode(form_data.pincode)
        THEN <<FormErrPincode>> ELSE <<>>)

(***************************************************************************)
(* One registration attempt in a fresh session, with forms that leave      *)
(* fields empty or blank, decline the terms or name a sample account.      *)
(***************************************************************************)
\* "", "a@b.co", "a@b" and the address of the sample patient
RegistrationEmails ==
    {<<>>,
     <<"a", "@", "b", ".", "c", "o">>,
     <<"a", "@", "b">>,
     <<"j", "o", "h", "n", ".", "d", "o", "e", "@",
       "e", "x", "a", "m", "p", "l", "e", ".", "c", "o", "m">>}

\* "", "abc123", "abcdef" and "Abc12!"
RegistrationPasswords ==
    {<<>>,
     <<"a", "b", "c", "1", "2", "3">>,
     <<"a", "b", "c", "d", "e", "f">>,
     <<"A", "b", "c", "1", "2", "!">>}

\* "", "abc123" and "Abc12!"
RegistrationConfirmations ==
    {<<>>, <<"a", "b", "c", "1", "2", "3">>, <<"A", "b", "c", "1", "2", "!">>}

\* "", "12345" and "1234"
RegistrationPincodes ==
    {<<>>, <<"1", "2", "3", "4", "5">>, <<"1", "2", "3", "4">>}

\* each text field filled, empty, and the first name also one blank
RegistrationForms ==
    [user_type : Roles,
     first_name : FirstNames \cup {<<" ">>},
     last_name : LastNames \cup {<<>>},
     username : Usernames \cup {<<>>},
     email : RegistrationEmails,
     password : RegistrationPasswords,
     confirm_password : RegistrationConfirmations,
     address_line1 : AddressLines \cup {<<>>},
     city : Cities \cup {<<>>},
     state : States,
     pincode : RegistrationPincodes,
     terms_accepted : BOOLEAN,
     profile_picture : ProfilePictures]

\* the form goes through signup_form of app.py
RegisterOnce ==
    /\ last.op = "init"
    /\ \E form \in RegistrationForms : signup_form(form)

\* the form goes through validate_signup_form of components/froms.py
ValidateSignupFormOnce ==
    /\ last.op = "init"
    /\ \E form \in RegistrationForms :
           last' = [op |-> "validate_signup_form", form |-> form,
                    errors |-> validate_signup_form(form),
                    message |-> "", user |-> None]
    /\ UNCHANGED <<users_db, logged_in, user_data, clock, concurrent_vars>>

\* the form goes through validate_required_fields of utils/val.py
ValidateRequiredFieldsOnce ==
    /\ last.op = "init"
    /\ \E form \in RegistrationForms :
           last' = [op |-> "validate_required_fields", form |-> form,
                    errors |-> validate_required_fields(form, required_fields)[2],
                    message |-> "", user |-> None]
    /\ UNCHANGED <<users_db, logged_in, user_data, clock, concurrent_vars>>

RegistrationNext ==
    RegisterOnce \/ ValidateSignupFormOnce \/ ValidateRequiredFieldsOnce

RegistrationSpec == Init /\ [][RegistrationNext]_vars

(***************************************************************************)
(* The validators applied to one argument: every text over a small         *)
(* alphabet up to a length, or None.                                       *)
(***************************************************************************)
MaxPasswordLen == 6
MaxEmailLen == 7
MaxPincodeLen == 7

Texts(alphabet, n) == UNION {[1..k -> alphabet] : k \in 0..n}

\* a lower and an upper case letter, a digit and a special character
PasswordChars == {"a", "A", "1", "!"}

\* what an address is made of, a blank and a newline
EmailChars == {"a", "@", ".", " ", "\n"}

\* a digit, U+00B2 and a letter
PincodeChars == {"1", "sup2", "a"}

Arguments(texts) == {[text |-> t] : t \in texts} \cup {None}

ValidatorInit ==
    /\ logged_in = FALSE
    /\ user_data = None
    /\ users_db = load_sample_data(0, 1)
    /\ clock = 2
    /\ stores = <<>>
    /\ sessions = <<>>
    /\ mutex = NoMutex
    /\ \/ \E arg \in Arguments(Texts(PasswordChars, MaxPasswordLen)) :
              last = [op |-> "input", kind |-> "password", arg |-> arg]
       \/ \E arg \in Arguments(Texts(EmailChars, MaxEmailLen)) :
              last = [op |-> "input", kind |-> "email", arg |-> arg]
       \/ \E arg \in Arguments(Texts(PincodeChars, MaxPincodeLen)) :
              last = [op |-> "input", kind |-> "pincode", arg |-> arg]

\* validate_password of app.py, utils/auth.py and utils/val.py
ValidatePassword ==
    /\ last.op = "input"
    /\ last.kind = "password"
    /\ last' = [op |-> "validate_password", arg |-> last.arg,
                app |-> Call_validate_password(last.arg),
                auth |-> Call_auth_validate_password(last.arg),
                val |-> Call_val_validate_password(last.arg)]
    /\ UNCHANGED <<users_db, logged_in, user_data, clock, concurrent_vars>>

\* validate_email of app.py, utils/auth.py and utils/val.py
ValidateEmail ==
    /\ last.op = "input"
    /\ last.kind = "email"
    /\ last' = [op |-> "validate_email", arg |-> last.arg,
                app |-> Call_validate_email(last.arg),
                auth |-> Call_auth_validate_email(last.arg),
                val |-> Call_val_validate_email(last.arg)]
    /\ UNCHANGED <<users_db, logged_in, user_data, clock, concurrent_vars>>

\* validate_pincode of app.py, the one module that defines it
ValidatePincode ==
    /\ last.op = "input"
    /\ last.kind = "pincode"
    /\ last' = [op |-> "validate_pincode", arg |-> last.arg,
                app |-> Call_validate_pincode(last.arg)]
    /\ UNCHANGED <<users_db, logged_in, user_data, clock, concurrent_vars>>

ValidatorNext == ValidatePassword \/ ValidateEmail \/ ValidatePincode

ValidatorSpec == ValidatorInit /\ [][ValidatorNext]_vars

(***************************************************************************)
(* Several sessions.  Streamlit runs the script of each session in its own *)
(* thread with its own st.session_state; stores holds the dicts that       *)
(* load_sample_data has built, and a session refers to its users_db by its *)
(* place in stores.  The script of a session is followed statement by      *)
(* statement where it reads or writes the store.                           *)
(***************************************************************************)
Sessions == {1, 2}

\* the one valid form, submitted for either role
ConcurrentSignupForms ==
    {form \in SignupForms :
        /\ form.first_name = <<"A", "n", "n">>
        /\ form.email = <<"a", "@", "b", ".", "c", "o">>
        /\ form.password = <<"a", "b", "c", "1", "2", "3">>
        /\ form.confirm_password = form.password
        /\ form.pincode = <<"1", "2", "3", "4", "5">>}

\* the credentials of that form, for either role, and those of the sample
\* patient
ConcurrentLoginForms ==
    {form \in LoginForms :
        \/ /\ form.email = <<"a", "@", "b", ".", "c", "o">>
           /\ form.password = <<"a", "b", "c", "1", "2", "3">>
        \/ /\ form.user_type = "patient"
           /\ form.email = load_sample_data(0, 1).patients[1].email
           /\ form.password = <<"p", "a", "s", "s", "w", "o", "r", "d", "1", "2", "3">>}

\* a session before the first run of its script; saved counts the records
\* the session has appended
NewSession ==
    [initialized |-> FALSE, users_db |-> 0, logged_in |-> FALSE,
     user_data |-> None, pc |-> "idle", user_type |-> "", new_user |-> None,
     saved |-> 0]

\* every session given the one store object there is
AllocateStore_shared(heap, store) ==
    IF heap = <<>>
    THEN [stores |-> <<store>>, ref |-> 1]
    ELSE [stores |-> heap, ref |-> 1]

\* load_sample_data() builds a new dict at each call
AllocateStore(heap, store) == [stores |-> Append(heap, store), ref |-> Len(heap) + 1]

\* st.session_state.users_db of session s
SessionStore(s) == stores[sessions[s].users_db]

\* initialize_session_state in the first run of the script of session s
session_initialize(s) ==
    /\ ~sessions[s].initialized
    /\ LET new == AllocateStore(stores, load_sample_data(clock, clock + 1))
       IN  /\ stores' = new.stores
           /\ sessions' = [sessions EXCEPT ![s] =
                              [@ EXCEPT !.initialized = TRUE,
                                        !.users_db = new.ref,
                                        !.logged_in = FALSE,
                                        !.user_data = None]]
    /\ clock' = clock + 2
    /\ last' = [op |-> "initialize", session |-> s, user |-> None]
    /\ UNCHANGED <<users_db, logged_in, user_data, mutex>>

\* signup_form of session s from the submission to the call of
\* save_user_to_db: the checks, check_user_exists among them, the errors
\* shown or the dict user_data built
session_signup_check(s, form) ==
    /\ sessions[s].initialized
    /\ sessions[s].pc = "idle"
    /\ ~sessions[s].logged_in
    /\ mutex.enabled => mutex.holder = 0
    /\ LET errors == SignupErrors(SessionStore(s), form)
       IN  IF errors # <<>>
           THEN UNCHANGED <<sessions, mutex>>
           ELSE /\ sessions' = [sessions EXCEPT ![s] =
                                   [@ EXCEPT !.pc = "save_64",
                                             !.user_type = form.user_type,
                                             !.new_user = NewUserData(form)]]
                /\ mutex' = IF mutex.enabled
                            THEN [mutex EXCEPT !.holder = s]
                            ELSE mutex
    /\ last' = [op |-> "signup_check", session |-> s, user |-> None]
    /\ UNCHANGED <<users_db, logged_in, user_data, clock, stores>>

\* user_data['created_at'] = datetime.now().isoformat()
session_save_created_at(s) ==
    /\ sessions[s].pc = "save_64"
    /\ sessions' = [sessions EXCEPT ![s] =
                       [@ EXCEPT !.pc = "save_65",
                                 !.new_user = @ @@ [created_at |-> clock]]]
    /\ clock' = clock + 1
    /\ last' = [op |-> "save_created_at", session |-> s, user |-> None]
    /\ UNCHANGED <<users_db, logged_in, user_data, stores, mutex>>

\* user_data['user_id'] = len(users_db[f"{user_type}s"]) + 1
session_save_user_id(s) ==
    /\ sessions[s].pc = "save_65"
    /\ sessions' = [sessions EXCEPT ![s] =
                       [@ EXCEPT !.pc = "save_66",
                                 !.new_user =
                                     @ @@ [user_id |->
                                             Len(SessionStore(s)[PartitionKey(
                                                     sessions[s].user_type)]) + 1]]]
    /\ last' = [op |-> "save_user_id", session |-> s, user |-> None]
    /\ UNCHANGED <<users_db, logged_in, user_data, clock, stores, mutex>>

\* users_db[f"{user_type}s"].append(user_data), and the rerun
session_save_append(s) ==
    /\ sessions[s].pc = "save_66"
    /\ stores' = [stores EXCEPT ![sessions[s].users_db] =
                     [@ EXCEPT ![PartitionKey(sessions[s].user_type)] =
                                   Append(@, sessions[s].new_user)]]
    /\ sessions' = [sessions EXCEPT ![s] =
                       [@ EXCEPT !.pc = "idle", !.new_user = None,
                                 !.saved = @ + 1]]
    /\ mutex' = IF mutex.enabled THEN [mutex EXCEPT !.holder = 0] ELSE mutex
    /\ last' = [op |-> "save_append", session |-> s, user |-> None]
    /\ UNCHANGED <<users_db, logged_in, user_data, clock>>

\* login_form of session s on submission
session_login(s, form) ==
    /\ sessions[s].initialized
    /\ sessions[s].pc = "idle"
    /\ ~sessions[s].logged_in
    /\ LET user == IF Truthy(form.email) /\ Truthy(form.password)
                   THEN authenticate_user(SessionStore(s), form.email,
                                          form.password, form.user_type)
                   ELSE None
       IN  /\ sessions' = IF user # None
                          THEN [sessions EXCEPT ![s] =
                                   [@ EXCEPT !.logged_in = TRUE, !.user_data = user]]
                          ELSE sessions
           /\ last' = [op |-> "login", session |-> s, user |-> user]
    /\ UNCHANGED <<users_db, logged_in, user_data, clock, stores, mutex>>

\* the logout button of session s
session_logout(s) ==
    /\ sessions[s].pc = "idle"
    /\ sessions[s].logged_in
    /\ sessions' = [sessions EXCEPT ![s] =
                       [@ EXCEPT !.logged_in = FALSE, !.user_data = None]]
    /\ last' = [op |-> "logout", session |-> s, user |-> None]
    /\ UNCHANGED <<users_db, logged_in, user_data, clock, stores, mutex>>

\* no session has run its script yet; the variables of the single session
\* are not used
SessionsInit ==
    /\ users_db = [patients |-> <<>>, doctors |-> <<>>]
    /\ logged_in = FALSE
    /\ user_data = None
    /\ clock = 0
    /\ last = [op |-> "init", session |-> 0, user |-> None]
    /\ stores = <<>>
    /\ sessions = [s \in Sessions |-> NewSession]
    /\ mutex = NoMutex

SessionsNext ==
    \E s \in Sessions :
        \/ session_initialize(s)
        \/ \E form \in ConcurrentSignupForms : session_signup_check(s, form)
        \/ session_save_created_at(s)
        \/ session_save_user_id(s)
        \/ session_save_append(s)
        \/ \E form \in ConcurrentLoginForms : session_login(s, form)
        \/ session_logout(s)

SessionsSpec == SessionsInit /\ [][SessionsNext]_vars

\* the registrations of the sessions run against one store object, with the
\* lock around check-then-insert or without it
SharedStoreInit ==
    /\ users_db = [patients |-> <<>>, doctors |-> <<>>]
    /\ logged_in = FALSE
    /\ user_data = None
    /\ clock = 2
    /\ last = [op |-> "init", session |-> 0, user |-> None]
    /\ stores = <<load_sample_data(0, 1)>>
    /\ sessions = [s \in Sessions |->
                      [NewSession EXCEPT !.initialized = TRUE, !.users_db = 1]]
    /\ mutex \in {[enabled |-> e, holder |-> 0] : e \in BOOLEAN}

SharedStoreNext ==
    \E s \in Sessions :
        \/ \E form \in ConcurrentSignupForms : session_signup_check(s, form)
        \/ session_save_created_at(s)
        \/ session_save_user_id(s)
        \/ session_save_append(s)

SharedStoreSpec == SharedStoreInit /\ [][SharedStoreNext]_vars

(***************************************************************************)
(* Properties of one session.                                              *)
(***************************************************************************)
Range(seq) == {seq[k] : k \in 1..Len(seq)}

\* the partition of a role, read off the store itself
RolePartition(db, user_type) == IF user_type = "patient" THEN db.patients ELSE db.doctors

OtherRole(user_type) == IF user_type = "patient" THEN "doctor" ELSE "patient"

\* some record of the partition of user_type has exactly this email
HasEmail(db, user_type, email) ==
    \E k \in 1..Len(RolePartition(db, user_type)) :
        RolePartition(db, user_type)[k].email = email

\* every password the forms of the model are filled with
KnownPasswords == SignupPasswords \cup LoginPasswords

KnownEmails == SignupEmails \cup LoginEmails

\* C1: no two records of one role partition have exactly the same email.
C1_UniqueEmailPerRole ==
    \A user_type \in Roles :
        \A i, j \in 1..Len(RolePartition(users_db, user_type)) :
            i # j => RolePartition(users_db, user_type)[i].email
                     # RolePartition(users_db, user_type)[j].email

\* a partition holds two accounts registered in the session besides its
\* sample account
C1_Witness ==
    \E user_type \in Roles : Len(RolePartition(users_db, user_type)) = 3

\* C2: a signup whose email is that of a record already in the partition of
\* its role shows the duplicate-account error and leaves the length of that
\* partition as it was.
C2_DuplicateSignupRejected ==
    [][(/\ last'.op = "signup"
        /\ HasEmail(users_db, last'.form.user_type, last'.form.email))
       => (/\ ErrExists \in Range(last'.errors)
           /\ Len(RolePartition(users_db', last'.form.user_type))
              = Len(RolePartition(users_db, last'.form.user_type)))]_vars

\* a submission whose only error is the duplicate account: every other field
\* of it is valid
C2_Witness == last.op = "signup" /\ last.errors = <<ErrExists>>

\* C3: a signup submission with at least one error leaves both partitions as
\* they were, and the store changes only by a signup without errors.
C3_ErrorsLeaveStoreUnchanged ==
    [][/\ (last'.op = "signup" /\ last'.errors # <<>>) => users_db' = users_db
       /\ users_db' # users_db => (last'.op = "signup" /\ last'.errors = <<>>)]_vars

\* a submission with several errors has been handled in a session that has
\* registered an account before
C3_Witness ==
    /\ last.op = "signup"
    /\ Len(last.errors) >= 3
    /\ Len(users_db.patients) + Len(users_db.doctors) > 2

\* C4: every stored record is fully valid: its names, username, email and
\* address fields are non-empty, its email passes validate_email, its pincode
\* is 5 or 6 decimal digits, and its password is the digest of a password
\* that passed the strength check and equalled its confirmation.
C4_RecordsFullyValid ==
    /\ \A user_type \in Roles :
           \A k \in 1..Len(RolePartition(users_db, user_type)) :
               LET r == RolePartition(users_db, user_type)[k]
               IN  /\ r.first_name # <<>>
                   /\ r.last_name # <<>>
                   /\ r.username # <<>>
                   /\ r.email # <<>>
                   /\ r.address.line1 # <<>>
                   /\ r.address.city # <<>>
                   /\ r.address.state # <<>>
                   /\ r.address.pincode # <<>>
                   /\ validate_email(r.email)
                   /\ Len(r.address.pincode) \in {5, 6}
                   /\ \A c \in 1..Len(r.address.pincode) :
                          r.address.pincode[c] \in AsciiDigits
                   /\ \E p \in KnownPasswords :
                          /\ r.password = hash_password(p)
                          /\ validate_password(p)[1]
    /\ (last.op = "signup" /\ last.errors = <<>>)
           => last.form.password = last.form.confirm_password

\* C5: for every stored record r of a role and the password p it was
\* registered with (the p whose digest r holds), authenticate_user with r's
\* email, p and that role returns exactly r.
C5_CorrectPasswordReturnsRecord ==
    \A user_type \in Roles :
        \A k \in 1..Len(RolePartition(users_db, user_type)) :
            \A p \in KnownPasswords :
                LET r == RolePartition(users_db, user_type)[k]
                IN  r.password = hash_password(p)
                        => authenticate_user(users_db, r.email, p, user_type) = r

\* a login has returned an account that was registered in the session after
\* another one of its role with the same password
C5_Witness ==
    /\ last.op = "login"
    /\ last.user # None
    /\ last.user.user_id >= 2
    /\ last.user = RolePartition(users_db, last.form.user_type)[last.user.user_id]
    /\ Len(RolePartition(users_db, last.form.user_type)) = 3
    /\ RolePartition(users_db, last.form.user_type)[2].password
       = RolePartition(users_db, last.form.user_type)[3].password

\* the store without the records of email in the partition of user_type
WithoutEmail(db, user_type, email) ==
    [key \in DOMAIN db |->
        IF key = PartitionKey(user_type)
        THEN SelectSeq(db[key], LAMBDA r : r.email # email)
        ELSE db[key]]

\* C6: a failed login attempt looks the same whether or not its email exists
\* in the partition of its role: what it shows and leaves in the session is
\* what the same attempt gives on the store without the records of that
\* email.
C6_FailedLoginHidesExistence ==
    \A form \in LoginForms :
        LoginOutcome(users_db, form).user = None
            => LoginOutcome(users_db, form)
               = LoginOutcome(WithoutEmail(users_db, form.user_type, form.email), form)

\* a login with the email of a stored account of the role and a wrong
\* password has just failed
C6_Witness ==
    /\ last.op = "login"
    /\ last.form.password # <<>>
    /\ last.user = None
    /\ HasEmail(users_db, last.form.user_type, last.form.email)
    /\ ~logged_in

\* C7: authenticate_user fails for a role whose partition holds no record
\* with the email, whatever the partition of the other role holds.
C7_AuthenticationRoleScoped ==
    \A user_type \in Roles : \A email \in KnownEmails : \A p \in KnownPasswords :
        ~HasEmail(users_db, user_type, email)
            => authenticate_user(users_db, email, p, user_type) = None

\* a login has just failed for a role without the email, while the other
\* role holds a record with that email and the digest of that password
C7_Witness ==
    /\ last.op = "login"
    /\ last.message = MsgInvalid
    /\ ~HasEmail(users_db, last.form.user_type, last.form.email)
    /\ \E k \in 1..Len(RolePartition(users_db, OtherRole(last.form.user_type))) :
           LET r == RolePartition(users_db, OtherRole(last.form.user_type))[k]
           IN  /\ r.email = last.form.email
               /\ r.password = hash_password(last.form.password)

\* the fields of a form are all valid
ValidFields(form) ==
    /\ AllRequiredFilled(form)
    /\ form.terms_accepted
    /\ validate_email(form.email)
    /\ form.password = form.confirm_password
    /\ validate_password(form.password)[1]
    /\ validate_pincode(form.pincode)

\* C8: a valid signup for a role whose partition holds no record with its
\* email succeeds and appends one record with that email to that partition,
\* whether or not the other role holds the email, and leaves the partition
\* of the other role as it was.
C8_SameEmailOtherRoleAccepted ==
    [][(/\ last'.op = "signup"
        /\ ValidFields(last'.form)
        /\ ~HasEmail(users_db, last'.form.user_type, last'.form.email))
       => (/\ last'.errors = <<>>
           /\ Len(RolePartition(users_db', last'.form.user_type))
              = Len(RolePartition(users_db, last'.form.user_type)) + 1
           /\ SubSeq(RolePartition(users_db', last'.form.user_type), 1,
                     Len(RolePartition(users_db, last'.form.user_type)))
              = RolePartition(users_db, last'.form.user_type)
           /\ RolePartition(users_db', last'.form.user_type)
                  [Len(RolePartition(users_db', last'.form.user_type))].email
              = last'.form.email
           /\ RolePartition(users_db', OtherRole(last'.form.user_type))
              = RolePartition(users_db, OtherRole(last'.form.user_type)))]_vars

\* a signup has just succeeded with an email the other role already held
C8_Witness ==
    /\ last.op = "signup"
    /\ last.errors = <<>>
    /\ HasEmail(users_db, OtherRole(last.form.user_type), last.form.email)

\* C9: the record at position i of a partition has user_id i.
C9_UserIdIsPosition ==
    \A user_type \in Roles :
        \A i \in 1..Len(RolePartition(users_db, user_type)) :
            RolePartition(users_db, user_type)[i].user_id = i

\* a signup has just stored the third record of its partition
C9_Witness ==
    /\ last.op = "signup"
    /\ last.errors = <<>>
    /\ Len(RolePartition(users_db, last.form.user_type)) = 3
    /\ RolePartition(users_db, last.form.user_type)[3].email = last.form.email

\* positions of the patients registered in the session: those not among the
\* sample records the session starts with
SessionPatients ==
    {k \in 1..Len(users_db.patients) :
        users_db.patients[k] \notin Range(load_sample_data(0, 1).patients)}

\* a second registration of the email of the patient at position k has just
\* been rejected as a duplicate
DuplicateOfPatientRejected(k) ==
    /\ last.op = "signup"
    /\ last.form.user_type = "patient"
    /\ last.form.email = users_db.patients[k].email
    /\ ErrExists \in Range(last.errors)

\* C10 as stated: the first patient registered in a session is stored with
\* id 1 and role patient, and after a rejected second registration of its
\* email the patient partition holds 1 record.
C10_FirstPatientHasIdOne ==
    \A k \in SessionPatients :
        Cardinality(SessionPatients) = 1
            => /\ users_db.patients[k].user_id = 1
               /\ users_db.patients[k].user_type = "patient"
               /\ DuplicateOfPatientRejected(k) => Len(users_db.patients) = 1

\* C10 amended: the session starts with the sample patient, so the first
\* patient registered in it is stored with id 2 and role patient, and after
\* a rejected second registration of its email the patient partition holds
\* 2 records.
C10_FirstPatientHasIdTwo ==
    \A k \in SessionPatients :
        Cardinality(SessionPatients) = 1
            => /\ users_db.patients[k].user_id = 2
               /\ users_db.patients[k].user_type = "patient"
               /\ DuplicateOfPatientRejected(k) => Len(users_db.patients) = 2

\* the first patient has been registered and a second registration of its
\* email has just been rejected
C10_Witness ==
    /\ Cardinality(SessionPatients) = 1
    /\ \E k \in SessionPatients : DuplicateOfPatientRejected(k)

\* C11: the store is append-only: a record at position i of a partition
\* stays at position i with all its fields in every later state, and no
\* partition gets shorter.
C11_StoreAppendOnly ==
    [][\A user_type \in Roles :
           /\ Len(RolePartition(users_db', user_type))
              >= Len(RolePartition(users_db, user_type))
           /\ \A i \in 1..Len(RolePartition(users_db, user_type)) :
                  RolePartition(users_db', user_type)[i]
                  = RolePartition(users_db, user_type)[i]]_vars

\* a logout in a session that has registered two accounts: signups, a login
\* and a logout have all acted on the store
C11_Witness ==
    /\ last.op = "logout"
    /\ Len(users_db.patients) + Len(users_db.doctors) = 4

\* C12: every record of users_db['patients'] has user_type 'patient' and
\* every record of users_db['doctors'] has user_type 'doctor', and no step
\* takes a record of one partition into the other.
C12_RecordsStayInRolePartition ==
    /\ [](\A user_type \in Roles :
              \A i \in 1..Len(RolePartition(users_db, user_type)) :
                  RolePartition(users_db, user_type)[i].user_type = user_type)
    /\ [][\A user_type \in Roles :
              \A r \in Range(RolePartition(users_db, user_type)) :
                  /\ r \in Range(RolePartition(users_db', user_type))
                  /\ r \in Range(RolePartition(users_db', OtherRole(user_type)))
                         => r \in Range(RolePartition(users_db, OtherRole(user_type)))]_vars

\* both partitions hold an account registered in the session
C12_Witness == Len(users_db.patients) >= 2 /\ Len(users_db.doctors) >= 2

\* the fields a stored record may have
StoredFields ==
    {"user_type", "first_name", "last_name", "username", "email", "password",
     "address", "profile_picture", "created_at", "user_id"}

\* the record holds a digest and neither a typed password nor any field
\* beyond the stored ones
HoldsDigestOnly(r) ==
    /\ DOMAIN r \subseteq StoredFields
    /\ DOMAIN r.address = {"line1", "city", "state", "pincode"}
    /\ r.password \in {hash_password(p) : p \in KnownPasswords}
    /\ r.password \notin KnownPasswords

\* C13: the password field of every stored record is hash_password of the
\* password typed at registration, and neither a stored record nor user_data
\* has a field for the typed password or its confirmation.
C13_OnlyDigestStored ==
    /\ [](/\ \A user_type \in Roles :
                 \A i \in 1..Len(RolePartition(users_db, user_type)) :
                     HoldsDigestOnly(RolePartition(users_db, user_type)[i])
          /\ user_data # None => HoldsDigestOnly(user_data))
    /\ [][(last'.op = "signup" /\ users_db' # users_db)
              => LET users == RolePartition(users_db', last'.form.user_type)
                 IN  users[Len(users)].password
                     = hash_password(last'.form.password)]_vars

\* an account registered in the session is logged in
C13_Witness ==
    /\ logged_in
    /\ user_data # None
    /\ user_data.user_id >= 2

(***************************************************************************)
(* Properties of one registration attempt and of the validators.           *)
(***************************************************************************)
HasError(errors, e) == \E k \in 1..Len(errors) : errors[k] = e

Count(errors, e) == Cardinality({k \in 1..Len(errors) : errors[k] = e})

\* empty, or blank once the surrounding whitespace is trimmed
MissingField(form, field) == ~Truthy(strip(form[field]))

\* not empty, and blank once the surrounding whitespace is trimmed
BlankField(form, field) == Truthy(form[field]) /\ ~Truthy(strip(form[field]))

C15_OneErrorPerMissingField ==
    /\ last.op = "signup"
         => Count(last.errors, ErrRequired)
            = Cardinality({f \in Range(required_fields) : MissingField(last.form, f)})
    /\ last.op = "validate_signup_form"
         => \A f \in Range(required_fields) :
                Count(last.errors, RequiredMessage(f))
                = IF MissingField(last.form, f) THEN 1 ELSE 0
    /\ last.op = "validate_required_fields"
         => last.errors
            = SelectSeq(required_fields, LAMBDA f : MissingField(last.form, f))

\* C16: a submission with a required field that is not empty but blank once
\* trimmed gets a missing-field error and adds no record to the store.
C16_BlankFieldIsMissing ==
    [][/\ (last'.op = "signup"
           /\ \E f \in Range(required_fields) : BlankField(last'.form, f))
            => /\ HasError(last'.errors, ErrRequired)
               /\ users_db' = users_db
       /\ last'.op = "validate_signup_form"
            => \A f \in Range(required_fields) :
                   BlankField(last'.form, f)
                       => HasError(last'.errors, RequiredMessage(f))
       /\ last'.op = "validate_required_fields"
            => \A f \in Range(required_fields) :
                   BlankField(last'.form, f) => HasError(last'.errors, f)]_vars

\* what a reason of validate_password says is wrong
ReasonKind(message) ==
    CASE message = "Password is required" -> "required"
      [] message = "Password must be at least 6 characters long" -> "length"
      [] message = "Password must contain at least one letter" -> "letter"
      [] message = "Password must contain at least one number" -> "digit"
      [] message = "Password must contain at least one digit" -> "digit"
      [] message = "Password is valid" -> "valid"
      [] OTHER -> message

\* the verdict and the kind of reason a call of validate_password returned
Verdict(outcome) == <<outcome.returns[1], ReasonKind(outcome.returns[2])>>

\* the policy of the claim: required, length, letter, digit, in this order
RequiredPasswordVerdict(password) ==
    IF Len(password) = 0 THEN <<FALSE, "required">>
    ELSE IF Len(password) < 6 THEN <<FALSE, "length">>
    ELSE IF {k \in 1..Len(password) : password[k] \in Letters} = {}
    THEN <<FALSE, "letter">>
    ELSE IF {k \in 1..Len(password) : password[k] \in AsciiDigits} = {}
    THEN <<FALSE, "digit">>
    ELSE <<TRUE, "valid">>

\* C17: password strength validation accepts a password of at least 6
\* characters with a letter and a digit, and rejects any other with the
\* first reason that applies of: required (empty), too short, no letter, no
\* digit; in app.py, utils/auth.py and utils/val.py alike.
C17_PasswordStrengthPolicy ==
    (last.op = "validate_password" /\ last.arg # None)
        => /\ Verdict(last.app) = RequiredPasswordVerdict(last.arg.text)
           /\ Verdict(last.auth) = RequiredPasswordVerdict(last.arg.text)
           /\ Verdict(last.val) = RequiredPasswordVerdict(last.arg.text)

\* C18: validate_password of app.py (used by signup_form) and
\* validate_password of utils/val.py (used by validate_signup_form) give
\* every password the same verdict and the same reason.
C18_OnePasswordPolicy ==
    (last.op = "validate_password" /\ last.arg # None)
        => Verdict(last.app) = Verdict(last.val)

\* C19: every validator returns for every argument, the empty text and None
\* included, and never raises.
C19_ValidatorsTotal ==
    last.op \in {"validate_password", "validate_email", "validate_pincode"}
        => \A m \in DOMAIN last \ {"op", "arg"} : DOMAIN last[m] = {"returns"}

\* local@domain.tld: one "@" with a local part before it, a last "." with a
\* domain between the two, and two or more letters after it
HasEmailForm(text) ==
    LET ats == {k \in 1..Len(text) : text[k] = "@"}
        dots == {k \in 1..Len(text) : text[k] = "."}
    IN  /\ Cardinality(ats) = 1
        /\ dots # {}
        /\ LET at == CHOOSE k \in ats : TRUE
               dot == CHOOSE k \in dots : \A d \in dots : d <= k
           IN  /\ at > 1
               /\ dot > at + 1
               /\ Len(text) >= dot + 2
               /\ \A k \in 1..(at - 1) : text[k] \in EmailLocalChars
               /\ \A k \in (at + 1)..(dot - 1) : text[k] \in EmailDomainChars
               /\ \A k \in (dot + 1)..Len(text) : text[k] \in Letters

\* C20: validate_email returns true exactly for the texts that, once the
\* surrounding whitespace is trimmed, have the form local@domain.tld; in
\* app.py, utils/auth.py and utils/val.py alike.
C20_EmailFormDecides ==
    (last.op = "validate_email" /\ last.arg # None)
        => /\ last.app = Returns(HasEmailForm(strip(last.arg.text)))
           /\ last.auth = Returns(HasEmailForm(strip(last.arg.text)))
           /\ last.val = Returns(HasEmailForm(strip(last.arg.text)))

\* C21: validate_pincode is true exactly of the texts made of the decimal
\* digits 0-9 only whose length is 5 or 6.
C21_PincodeDecimalDigits ==
    (last.op = "validate_pincode" /\ last.arg # None)
        => last.app
           = Returns(/\ Len(last.arg.text) \in {5, 6}
                     /\ \A k \in 1..Len(last.arg.text) :
                            last.arg.text[k] \in AsciiDigits)

\* findByEmail of the specified procedure: the index of the first record of
\* users with this email, 0 if there is none
RECURSIVE FirstWithEmail(_, _, _)
FirstWithEmail(users, email, k) ==
    IF k > Len(users) THEN 0
    ELSE IF users[k].email = email THEN k
    ELSE FirstWithEmail(users, email, k + 1)

\* the specified procedure: find the first record with the email, succeed
\* only if its digest is the hash of the supplied password
FindThenCompare(db, email, password, user_type) ==
    LET users == RolePartition(db, user_type)
        k == FirstWithEmail(users, email, 1)
    IN  IF k # 0 /\ users[k].password = hash_password(password)
        THEN users[k]
        ELSE None

\* C24: on every reachable store and for every role, email and password,
\* the single scan of authenticate_user returns what 'find the first record
\* with the email, then compare its digest' returns.
C24_ScanIsFindThenCompare ==
    \A user_type \in Roles : \A email \in KnownEmails : \A password \in KnownPasswords :
        authenticate_user(users_db, email, password, user_type)
        = FindThenCompare(users_db, email, password, user_type)

\* a login with a wrong password for an email registered in the session was
\* refused, on a store that holds two accounts of the session
C24_Witness ==
    /\ last.op = "login"
    /\ last.user = None
    /\ Truthy(last.form.email) /\ Truthy(last.form.password)
    /\ FirstWithEmail(RolePartition(users_db, last.form.user_type),
                      last.form.email, 1) >= 2
    /\ Len(users_db.patients) + Len(users_db.doctors) = 4

\* C25: logged_in is true exactly when user_data is not None.
C25_LoggedInIffUserData == logged_in <=> user_data # None

\* a login has just set both
C25_Witness == last.op = "login" /\ logged_in /\ user_data # None

\* C26: whenever logged_in is true, user_data is a record of the partition of
\* the role chosen at the login, has that role as user_type, and has the
\* email and the digest of the password of that login; nobody is logged in
\* but by a login that authenticated.
C26_LoggedInUserIsStored ==
    logged_in
        => /\ last.op = "login"
           /\ last.user = user_data
           /\ user_data \in Range(RolePartition(users_db, last.form.user_type))
           /\ user_data.user_type = last.form.user_type
           /\ user_data.email = last.form.email
           /\ user_data.password = hash_password(last.form.password)

\* a doctor registered in the session is logged in
C26_Witness ==
    /\ logged_in
    /\ last.op = "login"
    /\ last.form.user_type = "doctor"
    /\ user_data.user_id >= 2

\* C27: in every state after a successful signup, a login submission with
\* the role, the email and the password of that signup is welcomed and sets
\* user_data to the record the signup stored (records are never changed or
\* removed, C11), whatever signups, logins and logouts came in between.
C27_SignupThenLoginSucceeds ==
    \A user_type \in Roles :
        \A k \in 1..Len(RolePartition(users_db, user_type)) :
            \A p \in KnownPasswords :
                LET r == RolePartition(users_db, user_type)[k]
                    outcome == LoginOutcome(users_db, [user_type |-> user_type,
                                                       email |-> r.email,
                                                       password |-> p])
                IN  r.password = hash_password(p)
                        => /\ outcome.message = MsgWelcome
                           /\ outcome.logged_in
                           /\ outcome.user_data = r

\* the account of the first signup of the session is logged in after a
\* later signup in its role, a login and a logout
C27_Witness ==
    /\ logged_in
    /\ last.op = "login"
    /\ user_data.user_id = 2
    /\ user_data.created_at = 2
    /\ Len(RolePartition(users_db, user_data.user_type)) = 3
    /\ clock = 4

\* C28: a signup that creates an account appends one record to the partition
\* of the submitted role and leaves logged_in, user_data and the partition
\* of the other role as they were.
C28_SignupDoesNotLogIn ==
    [][(last'.op = "signup" /\ last'.errors = <<>>)
           => LET user_type == last'.form.user_type
                  before == RolePartition(users_db, user_type)
                  after == RolePartition(users_db', user_type)
              IN  /\ Len(after) = Len(before) + 1
                  /\ SubSeq(after, 1, Len(before)) = before
                  /\ after[Len(after)].email = last'.form.email
                  /\ RolePartition(users_db', OtherRole(user_type))
                     = RolePartition(users_db, OtherRole(user_type))
                  /\ logged_in' = logged_in
                  /\ user_data' = user_data
                  /\ ~logged_in'
                  /\ DOMAIN users_db' = DOMAIN users_db]_vars

\* a doctor account has just been created and nobody is logged in
C28_Witness ==
    /\ last.op = "signup"
    /\ last.errors = <<>>
    /\ last.form.user_type = "doctor"
    /\ Len(users_db.doctors) = 2
    /\ ~logged_in

\* C29: a login submission and a logout leave users_db as it was, and a login
\* submission that fails authentication or has an empty email or password
\* leaves logged_in false and user_data None.
C29_LoginLogoutLeaveStore ==
    [][/\ last'.op \in {"login", "logout"} => users_db' = users_db
       /\ (last'.op = "login" /\ last'.message # MsgWelcome)
            => (~logged_in' /\ user_data' = None)
       /\ (last'.op = "login"
           /\ (~Truthy(last'.form.email) \/ ~Truthy(last'.form.password)))
            => (last'.message = MsgEnterBoth /\ ~logged_in' /\ user_data' = None)
       /\ (last'.op = "login"
           /\ FindThenCompare(users_db, last'.form.email, last'.form.password,
                              last'.form.user_type) = None)
            => last'.message # MsgWelcome]_vars

\* a login with the email of an account of the session and an empty
\* password was refused
C29_Witness ==
    /\ last.op = "login"
    /\ last.message = MsgEnterBoth
    /\ Truthy(last.form.email)
    /\ ~logged_in
    /\ Len(users_db.patients) + Len(users_db.doctors) >= 3

\* C30: no two records of one role partition have emails that are equal
\* once leading and trailing whitespace is trimmed.
C30_UniqueEmailUpToWhitespace ==
    \A user_type \in Roles :
        \A i, j \in 1..Len(RolePartition(users_db, user_type)) :
            i # j => strip(RolePartition(users_db, user_type)[i].email)
                     # strip(RolePartition(users_db, user_type)[j].email)

(***************************************************************************)
(* Properties of several sessions.                                         *)
(***************************************************************************)
\* two records of one partition of the store have the same email
HasDuplicateEmail(db) ==
    \E user_type \in Roles :
        \E i, j \in 1..Len(RolePartition(db, user_type)) :
            /\ i # j
            /\ RolePartition(db, user_type)[i].email
               = RolePartition(db, user_type)[j].email

\* C22: on one shared store with check-then-insert executed under mutual
\* exclusion, no state is reachable in which a partition holds two records
\* with the same email, and every user_id is the position of its record;
\* without the mutual exclusion the state of C22_Witness is reachable.
C22_AtomicCheckThenInsert ==
    mutex.enabled
        => \A k \in 1..Len(stores) :
               /\ ~HasDuplicateEmail(stores[k])
               /\ \A user_type \in Roles :
                      \A i \in 1..Len(RolePartition(stores[k], user_type)) :
                          RolePartition(stores[k], user_type)[i].user_id = i

\* without mutual exclusion both registrations have passed check_user_exists
\* before either appended, both have committed, and the partition ends with
\* two records of the same email and the same user_id
C22_Witness ==
    /\ ~mutex.enabled
    /\ \A s \in Sessions : sessions[s].pc = "idle" /\ sessions[s].saved = 1
    /\ Len(stores) = 1
    /\ \E user_type \in Roles :
           LET users == RolePartition(stores[1], user_type)
           IN  /\ Len(users) = 3
               /\ users[2].email = users[3].email
               /\ users[2].user_id = users[3].user_id

\* what session s sees of its own state
SessionView(s) ==
    IF sessions[s].initialized
    THEN [users_db |-> SessionStore(s),
          logged_in |-> sessions[s].logged_in,
          user_data |-> sessions[s].user_data]
    ELSE None

\* C23: each session owns its store: no two sessions refer to the same
\* store, a step of one session leaves the users_db, logged_in and user_data
\* of every other session unchanged, and the account a session has
\* registered is not authenticated in a session that has registered none.
C23_SessionsIsolated ==
    /\ [](\A s, t \in Sessions :
              (s # t /\ sessions[s].initialized /\ sessions[t].initialized)
                  => /\ sessions[s].users_db # sessions[t].users_db
                     /\ sessions[t].saved = 0
                          => \A form \in ConcurrentSignupForms :
                                 authenticate_user(SessionStore(t), form.email,
                                                   form.password, form.user_type)
                                 = None)
    /\ [][\A s \in Sessions :
              last'.session # s => SessionView(s)' = SessionView(s)]_vars

\* session 1 has registered an account and is logged in with it, and the
\* login of session 2 with the same credentials has just been refused
C23_Witness ==
    /\ sessions[1].saved >= 1
    /\ sessions[1].logged_in
    /\ sessions[1].user_data.user_id = 2
    /\ sessions[2].initialized
    /\ sessions[2].saved = 0
    /\ last.op = "login"
    /\ last.session = 2
    /\ last.user = None

====
